---- MODULE Spec2Model ----
(***************************************************************************)
(* Model of sinch_audio_webhook_railway.py: a Flask application with four  *)
(* routes (/, /voice, /preview, /set_audio_url) and three module globals   *)
(* (AUDIO_URL, USE_TTS, TTS_TEXT).  Only AUDIO_URL is written after        *)
(* start-up, by set_audio_url, without any lock.                           *)
(*                                                                         *)
(* Python values are modelled as follows.  A JSON object (dict) is a       *)
(* function whose DOMAIN is its key set.  A string is a string.  Python's  *)
(* None (JSON null, or a missing query parameter) is the string None,      *)
(* which is outside every set of strings a request can carry.              *)
(***************************************************************************)
EXTENDS Integers, Sequences, FiniteSets, TLC

VARIABLES
    AUDIO_URL,     \* module global, line 23; rebound by set_audio_url
    USE_TTS,       \* module global, line 26; fixed at start-up
    TTS_TEXT,      \* module global, line 27; fixed at start-up
    sa,            \* per server thread: position inside set_audio_url
    last,          \* the request that completed most recently, and its response
    lastSupplied   \* history: audio_url of the latest completed set_audio_url
                   \* request whose body carried the key (start-up value if none)

vars == <<AUDIO_URL, USE_TTS, TTS_TEXT, sa, last, lastSupplied>>

-----------------------------------------------------------------------------
(* Bounds and value domains *)

NumThreads == 2

Threads == 1..NumThreads

None == "<None>"

Urls == {"http://x/a.mp3", "http://y/b.mp3"}

\* values of the environment variable AUDIO_URL at start-up ('' when unset)
StartupUrls == {"", "http://x/a.mp3"}

\* what a query parameter that is present can be: any string, also the empty one
QueryValues == {""} \cup Urls

\* what the JSON member audio_url can be: null or a string
JsonValues == {None} \cup QueryValues

\* 'ice', 'ace', 'dice' are the tags the code dispatches on
Events == {"ice", "ace", "dice", "", "foo"}

TtsTexts == {"Hello, this is an automated message.", "Custom announcement"}

EmptyDict == <<>>

\* JSON objects a caller can post: any subset of the two keys the code reads
JsonObjects ==
    { f \in UNION { [S -> Events \cup JsonValues] : S \in SUBSET {"event", "audio_url"} } :
        /\ ("event" \in DOMAIN f => f["event"] \in Events)
        /\ ("audio_url" \in DOMAIN f => f["audio_url"] \in JsonValues) }

\* request bodies.  kind: "object" a JSON object; "array" valid JSON that is
\* truthy and no object (e.g. [1]); "falsy" valid JSON that is falsy and no
\* object (null, [], 0); "malformed" JSON content type with unparsable text;
\* "nonjson" a content type other than JSON.
Bodies ==
    { [kind |-> "object", json |-> f] : f \in JsonObjects }
    \cup { [kind |-> k, json |-> EmptyDict] : k \in {"array", "falsy", "malformed", "nonjson"} }

\* bodies posted to /set_audio_url, which reads the key audio_url only
SetBodies ==
    { b \in Bodies : "event" \notin DOMAIN b.json }

\* query strings: with or without the parameter audio_url
QueryArgs == { EmptyDict } \cup { [audio_url |-> v] : v \in QueryValues }

-----------------------------------------------------------------------------
(* Python and Flask primitives *)

\* truth value of a string or None
Truthy(v) == v # None /\ v # ""

\* a or b
PyOr(a, b) == IF Truthy(a) THEN a ELSE b

\* d.get(k, default)
DictGet(d, k, default) == IF k \in DOMAIN d THEN d[k] ELSE default

Returned(type, items) ==
    [raised |-> FALSE, exc |-> "", value |-> [type |-> type, items |-> items]]

Raised(msg) ==
    [raised |-> TRUE, exc |-> msg, value |-> [type |-> "NoneType", items |-> EmptyDict]]

\* request.get_json(): the set of outcomes.  A body that is not JSON by its
\* content type gives None in Flask < 2.1 and raises 415 from 2.1 on; the
\* source pins no version, so both are outcomes.
GetJson(body) ==
    CASE body.kind = "object"    -> { Returned("dict", body.json) }
      [] body.kind = "array"     -> { Returned("list", EmptyDict) }
      [] body.kind = "falsy"     -> { Returned("NoneType", EmptyDict) }
      [] body.kind = "malformed" -> { Raised("400 Bad Request") }
      [] body.kind = "nonjson"   -> { Returned("NoneType", EmptyDict),
                                      Raised("415 Unsupported Media Type") }

\* truth value of what get_json() returned
ValueTruthy(v) ==
    CASE v.type = "dict"     -> DOMAIN v.items # {}
      [] v.type = "list"     -> TRUE
      [] v.type = "NoneType" -> FALSE

\* request.get_json() or {}
OrEmptyDict(v) == IF ValueTruthy(v) THEN v ELSE [type |-> "dict", items |-> EmptyDict]

\* str(e) of the AttributeError that data.get raises when data is no dict
NoGetAttr(v) == "'" \o v.type \o "' object has no attribute 'get'"

\* jsonify(obj), status
Jsonify(obj, status) == [status |-> status, kind |-> "json", body |-> obj]

\* return '', status
EmptyResponse(status) == [status |-> status, kind |-> "text", body |-> ""]

NoRequest ==
    [route |-> "", body |-> [kind |-> "none", json |-> EmptyDict], args |-> EmptyDict,
     resp |-> EmptyResponse(0), audio_url |-> None]

Completed(route, body, args, resp, audio_url) ==
    [route |-> route, body |-> body, args |-> args, resp |-> resp, audio_url |-> audio_url]

-----------------------------------------------------------------------------
(* GET / *)

health ==
    Jsonify([status |-> "online", service |-> "Sinch Audio Webhook", endpoint |-> "/voice"], 200)

-----------------------------------------------------------------------------
(* POST /voice *)

\* mutant: the body field is consulted before the query parameter
ResolveAudioUrlBodyFirst(args, data, default) ==
    PyOr(PyOr(DictGet(data, "audio_url", None), DictGet(args, "audio_url", None)), default)

\* request.args.get('audio_url') or data.get('audio_url') or AUDIO_URL
ResolveAudioUrl(args, data, default) ==
    PyOr(PyOr(DictGet(args, "audio_url", None), DictGet(data, "audio_url", None)), default)

\* mutant: the answer carries an (empty) instructions list
IceResponseWithInstructions ==
    Jsonify([instructions |-> <<>>, action |-> [name |-> "answer"]], 200)

\* the 'ice' branch
IceResponse == Jsonify([action |-> [name |-> "answer"]], 200)

NoAudioUrlError ==
    Jsonify([error |-> "No audio URL provided. Set audio_url query parameter, request body, or AUDIO_URL environment variable."], 400)

SayInstruction == [name |-> "say", text |-> TTS_TEXT, locale |-> "en-US"]

\* mutant: the file list under the key 'ids'
PlayFilesInstructionIds(audio_url) == [name |-> "playFiles", ids |-> <<audio_url>>]

PlayFilesInstruction(audio_url) == [name |-> "playFiles", files |-> <<audio_url>>]

\* mutant: text-to-speech does not replace the file, it precedes it
AceInstructionsBoth(audio_url) ==
    IF USE_TTS
    THEN <<[name |-> "say", text |-> TTS_TEXT, locale |-> "en-US"],
           [name |-> "playFiles", files |-> <<audio_url>>]>>
    ELSE <<[name |-> "playFiles", files |-> <<audio_url>>]>>

\* the instructions list built by the 'ace' branch
AceInstructions(audio_url) ==
    IF USE_TTS THEN <<SayInstruction>> ELSE <<PlayFilesInstruction(audio_url)>>

\* mutant: the check for a missing URL is left out
AceResponseUnchecked(audio_url) ==
    Jsonify([instructions |-> IF USE_TTS
                              THEN <<[name |-> "say", text |-> TTS_TEXT, locale |-> "en-US"]>>
                              ELSE <<[name |-> "playFiles", files |-> <<audio_url>>]>>,
             action |-> [name |-> "hangup"]], 200)

\* the 'ace' branch, after audio_url has been resolved
AceResponse(audio_url) ==
    IF ~Truthy(audio_url) /\ ~USE_TTS
    THEN NoAudioUrlError
    ELSE Jsonify([instructions |-> AceInstructions(audio_url),
                  action |-> [name |-> "hangup"]], 200)

\* the 'dice' branch
DiceResponse == EmptyResponse(200)

\* mutant: an unknown tag is rejected
UnhandledRejected == Jsonify([error |-> "Unknown event"], 400)

\* the final else branch
UnhandledResponse == EmptyResponse(200)

\* mutant: the except clause answers 400, as the one of set_audio_url does
InternalErrorAs400(msg) == Jsonify([error |-> "Internal server error: " \o msg], 400)

\* the except clause of voice
InternalError(msg) == Jsonify([error |-> "Internal server error: " \o msg], 500)

\* the body of voice for one outcome j of request.get_json(): the response
\* and the local audio_url (None on the paths that never assign it)
voice(j, args) ==
    IF j.raised
    THEN [resp |-> InternalError(j.exc), audio_url |-> None]
    ELSE LET data == OrEmptyDict(j.value) IN
         IF data.type # "dict"
         THEN [resp |-> InternalError(NoGetAttr(data)), audio_url |-> None]
         ELSE LET event == DictGet(data.items, "event", "")
                  audio_url == ResolveAudioUrl(args, data.items, AUDIO_URL)
              IN  CASE event = "ice"  -> [resp |-> IceResponse, audio_url |-> None]
                    [] event = "ace"  -> [resp |-> AceResponse(audio_url), audio_url |-> audio_url]
                    [] event = "dice" -> [resp |-> DiceResponse, audio_url |-> None]
                    [] OTHER          -> [resp |-> UnhandledResponse, audio_url |-> None]

-----------------------------------------------------------------------------
(* GET /preview *)

preview(args) ==
    LET audio_url == DictGet(args, "audio_url", AUDIO_URL)
    IN  Jsonify([audio_url |-> audio_url, status |-> "preview",
                 instructions |-> <<PlayFilesInstruction(audio_url)>>], 200)

-----------------------------------------------------------------------------
(* POST /set_audio_url *)

\* the except clause of set_audio_url
SetError(msg) == Jsonify([status |-> "error", message |-> msg], 400)

\* mutant: data.get without the default argument, so a body without the key
\* stores None
StoredValueNoDefault(data, loaded) == DictGet(data, "audio_url", None)

\* the value line 157 binds to AUDIO_URL; loaded is the value of AUDIO_URL
\* read when the arguments of data.get were evaluated
StoredValue(data, loaded) == DictGet(data, "audio_url", loaded)

\* line 159: the response reads the global again
SetSuccess(current) == Jsonify([status |-> "success", audio_url |-> current], 200)

Idle == [pc |-> "idle", body |-> [kind |-> "none", json |-> EmptyDict],
         data |-> [type |-> "dict", items |-> EmptyDict], loaded |-> None]

-----------------------------------------------------------------------------
(* State after import of the module: the three globals come from the       *)
(* environment, no request has been handled                                 *)

Init ==
    /\ AUDIO_URL \in StartupUrls
    /\ USE_TTS \in BOOLEAN
    /\ TTS_TEXT \in TtsTexts
    /\ sa = [t \in Threads |-> Idle]
    /\ last = NoRequest
    /\ lastSupplied = AUDIO_URL

\* no thread is inside set_audio_url
Quiescent == \A t \in Threads : sa[t].pc = "idle"

-----------------------------------------------------------------------------
(* Handlers that touch the globals at one point only: one step each *)

Health ==
    /\ last' = Completed("/", [kind |-> "none", json |-> EmptyDict], EmptyDict, health, None)
    /\ UNCHANGED <<AUDIO_URL, USE_TTS, TTS_TEXT, sa, lastSupplied>>

Voice(body, args) ==
    /\ \E j \in GetJson(body) :
         LET r == voice(j, args)
         IN  last' = Completed("/voice", body, args, r.resp, r.audio_url)
    /\ UNCHANGED <<AUDIO_URL, USE_TTS, TTS_TEXT, sa, lastSupplied>>

Preview(args) ==
    /\ last' = Completed("/preview", [kind |-> "none", json |-> EmptyDict], args,
                         preview(args), None)
    /\ UNCHANGED <<AUDIO_URL, USE_TTS, TTS_TEXT, sa, lastSupplied>>

-----------------------------------------------------------------------------
(* set_audio_url, thread t: one step per access to the global AUDIO_URL *)

\* line 156: data = request.get_json() or {}
SetGetJson(t, body) ==
    /\ sa[t].pc = "idle"
    /\ \E j \in GetJson(body) :
         IF j.raised
         THEN /\ last' = Completed("/set_audio_url", body, EmptyDict, SetError(j.exc), None)
              /\ sa' = sa
         ELSE /\ sa' = [sa EXCEPT ![t] = [pc |-> "load", body |-> body,
                                          data |-> OrEmptyDict(j.value), loaded |-> None]]
              /\ last' = last
    /\ UNCHANGED <<AUDIO_URL, USE_TTS, TTS_TEXT, lastSupplied>>

\* line 157, right-hand side: look up data.get, then read AUDIO_URL as the
\* default argument
SetLoad(t) ==
    /\ sa[t].pc = "load"
    /\ IF sa[t].data.type # "dict"
       THEN /\ last' = Completed("/set_audio_url", sa[t].body, EmptyDict,
                                 SetError(NoGetAttr(sa[t].data)), None)
            /\ sa' = [sa EXCEPT ![t] = Idle]
       ELSE /\ sa' = [sa EXCEPT ![t].pc = "store", ![t].loaded = AUDIO_URL]
            /\ last' = last
    /\ UNCHANGED <<AUDIO_URL, USE_TTS, TTS_TEXT, lastSupplied>>

\* line 157, the assignment to the global
SetStore(t) ==
    /\ sa[t].pc = "store"
    /\ AUDIO_URL' = StoredValue(sa[t].data.items, sa[t].loaded)
    /\ sa' = [sa EXCEPT ![t].pc = "return", ![t].loaded = None]
    /\ UNCHANGED <<USE_TTS, TTS_TEXT, last, lastSupplied>>

\* line 159: build the response from the global as it is now
SetReturn(t) ==
    /\ sa[t].pc = "return"
    /\ last' = Completed("/set_audio_url", sa[t].body, EmptyDict, SetSuccess(AUDIO_URL), None)
    /\ lastSupplied' = DictGet(sa[t].data.items, "audio_url", lastSupplied)
    /\ sa' = [sa EXCEPT ![t] = Idle]
    /\ UNCHANGED <<AUDIO_URL, USE_TTS, TTS_TEXT>>

-----------------------------------------------------------------------------
(* Specifications *)

\* a thread inside set_audio_url takes its next step
Progress ==
    \/ \E t \in Threads : SetLoad(t)
    \/ \E t \in Threads : SetStore(t)
    \/ \E t \in Threads : SetReturn(t)

\* requests served one after the other: a request is accepted only when no
\* set_audio_url is under way
Next ==
    \/ Quiescent /\ Health
    \/ Quiescent /\ \E body \in Bodies, args \in QueryArgs : Voice(body, args)
    \/ Quiescent /\ \E args \in QueryArgs : Preview(args)
    \/ Quiescent /\ \E t \in Threads, body \in SetBodies : SetGetJson(t, body)
    \/ Progress

Spec == Init /\ [][Next]_vars

\* the threaded server (app.run serves each request in its own thread):
\* set_audio_url requests overlap, and the steps of different threads interleave
NextThreaded ==
    \/ \E t \in Threads, body \in SetBodies : SetGetJson(t, body)
    \/ Progress

SpecThreaded == Init /\ [][NextThreaded]_vars

-----------------------------------------------------------------------------
(* Vocabulary of the properties: the request that completed last *)

IsVoice == last.route = "/voice"

\* the body of the last request parsed to a JSON object
IsObject == last.body.kind = "object"

\* the event tag of the last request; a missing field reads as ''
EventTag == IF "event" \in DOMAIN last.body.json THEN last.body.json["event"] ELSE ""

QuerySupplied == "audio_url" \in DOMAIN last.args

BodySupplied == "audio_url" \in DOMAIN last.body.json

\* a value was supplied and is usable as a URL (not empty, not null)
QueryUsable == QuerySupplied /\ last.args["audio_url"] \notin {"", None}

BodyUsable == BodySupplied /\ last.body.json["audio_url"] \notin {"", None}

DefaultUsable == AUDIO_URL \notin {"", None}

Resolvable == QueryUsable \/ BodyUsable \/ DefaultUsable

\* the last request was an 'answered' event and no set_audio_url has started
\* since, so AUDIO_URL is still the value that request read
Answered == Quiescent /\ IsVoice /\ IsObject /\ EventTag = "ace"

IsPlayFilesResponse ==
    /\ last.resp.status = 200
    /\ last.resp.kind = "json"
    /\ DOMAIN last.resp.body = {"instructions", "action"}
    /\ Len(last.resp.body.instructions) = 1
    /\ DOMAIN last.resp.body.instructions[1] = {"name", "files"}
    /\ last.resp.body.instructions[1].name = "playFiles"
    /\ Len(last.resp.body.instructions[1].files) = 1
    /\ last.resp.body.action = [name |-> "hangup"]

PlayedUrl == last.resp.body.instructions[1].files[1]

-----------------------------------------------------------------------------
(* Properties of /voice, under Spec *)

\* C1: an 'incoming' event (tag 'ice') in a JSON object body is answered with
\* status 200 and the body {action: {name: 'answer'}}, which has no
\* instructions, whatever else the body, the query string and the globals hold
C1_IncomingIsAnswered ==
    (IsVoice /\ IsObject /\ EventTag = "ice") =>
        /\ last.resp.status = 200
        /\ last.resp.kind = "json"
        /\ DOMAIN last.resp.body = {"action"}
        /\ last.resp.body.action = [name |-> "answer"]

\* an 'incoming' event that also carried both overrides, with text-to-speech on
C1_Witness ==
    /\ IsVoice /\ IsObject /\ EventTag = "ice"
    /\ QueryUsable /\ BodyUsable /\ USE_TTS
    /\ last.resp.status = 200

\* C2: an 'answered' event (tag 'ace') with text-to-speech off and a usable
\* audio URL gets status 200, exactly one instruction {name: 'playFiles',
\* files: [url]} whose list holds the resolved URL only, and the action hangup
C2_AnsweredPlaysFile ==
    (Answered /\ ~USE_TTS /\ Resolvable) =>
        /\ IsPlayFilesResponse
        /\ PlayedUrl = last.audio_url
        /\ PlayedUrl \notin {"", None}
        /\ \/ QuerySupplied /\ PlayedUrl = last.args["audio_url"]
           \/ BodySupplied /\ PlayedUrl = last.body.json["audio_url"]
           \/ PlayedUrl = AUDIO_URL

\* an 'answered' event played the process default
C2_Witness ==
    /\ Answered /\ ~USE_TTS /\ ~QuerySupplied /\ ~BodySupplied /\ DefaultUsable
    /\ IsPlayFilesResponse
    /\ PlayedUrl = AUDIO_URL

\* C3: an 'answered' event with text-to-speech on gets status 200, exactly one
\* instruction, a 'say' with the configured text and locale 'en-US', and the
\* action hangup, whether or not an audio URL resolves; no playFiles is sent
C3_AnsweredSpeaks ==
    (IsVoice /\ IsObject /\ EventTag = "ace" /\ USE_TTS) =>
        /\ last.resp.status = 200
        /\ last.resp.kind = "json"
        /\ DOMAIN last.resp.body = {"instructions", "action"}
        /\ last.resp.body.instructions =
               << [name |-> "say", text |-> TTS_TEXT, locale |-> "en-US"] >>
        /\ last.resp.body.action = [name |-> "hangup"]

\* text-to-speech answered an event for which no audio URL resolves
C3_Witness ==
    /\ Answered /\ USE_TTS /\ ~Resolvable
    /\ TTS_TEXT = "Custom announcement"
    /\ last.resp.status = 200
    /\ Len(last.resp.body.instructions) = 1

\* C4: an 'answered' event with text-to-speech off and no usable audio URL in
\* the query string, the body or the process default gets status 400 and a
\* body with the key 'error', without instructions and without action
C4_AnsweredWithoutUrlIsRejected ==
    (Answered /\ ~USE_TTS /\ ~Resolvable) =>
        /\ last.resp.status = 400
        /\ last.resp.kind = "json"
        /\ "error" \in DOMAIN last.resp.body
        /\ "instructions" \notin DOMAIN last.resp.body
        /\ "action" \notin DOMAIN last.resp.body

\* the rejected event supplied an empty query parameter and a null body field
C4_Witness ==
    /\ Answered /\ ~USE_TTS /\ ~Resolvable
    /\ QuerySupplied /\ BodySupplied
    /\ last.resp.status = 400

\* C5: an event whose tag is 'dice' or anything other than 'ice' and 'ace'
\* (the empty string, an unknown string, no event field at all) gets status
\* 200 and an empty body; it is never rejected
C5_OtherTagsAreAcknowledged ==
    (IsVoice /\ last.body.kind \in {"object", "falsy"} /\ EventTag \notin {"ice", "ace"}) =>
        /\ last.resp.status = 200
        /\ last.resp.kind = "text"
        /\ last.resp.body = ""

\* an unknown tag was acknowledged
C5_Witness ==
    /\ IsVoice /\ IsObject /\ EventTag = "foo"
    /\ last.resp.status = 200
    /\ last.resp.kind = "text"

\* the URL the precedence gives when a supplied value wins whatever it is
SuppliedUrl ==
    IF QuerySupplied THEN last.args["audio_url"]
    ELSE IF BodySupplied THEN last.body.json["audio_url"]
    ELSE AUDIO_URL

\* the URL the precedence gives when only a usable value wins
UsableUrl ==
    IF QueryUsable THEN last.args["audio_url"]
    ELSE IF BodyUsable THEN last.body.json["audio_url"]
    ELSE AUDIO_URL

\* C6 as stated: with text-to-speech off, the URL in the playFiles instruction
\* is the query parameter's value whenever one is supplied, otherwise the body
\* field's value whenever one is supplied, otherwise the process default
C6_SuppliedValueWins ==
    (Answered /\ ~USE_TTS /\ IsPlayFilesResponse) => PlayedUrl = SuppliedUrl

\* C6 as amended: with text-to-speech off, the URL in the playFiles instruction
\* is the query parameter's value whenever one is supplied and not empty,
\* otherwise the body field's value whenever one is supplied and neither empty
\* nor null, otherwise the process default
C6_UsableValueWins ==
    (Answered /\ ~USE_TTS /\ IsPlayFilesResponse) => PlayedUrl = UsableUrl

\* an empty query parameter was supplied and the body field's URL was played,
\* although the process default held another URL
C6_Witness ==
    /\ Answered /\ ~USE_TTS /\ IsPlayFilesResponse
    /\ QuerySupplied /\ ~QueryUsable /\ BodyUsable /\ DefaultUsable
    /\ PlayedUrl = last.body.json["audio_url"]
    /\ PlayedUrl # AUDIO_URL

C8_MalformedBodyIsContained ==
    [][ (/\ last' # last
         /\ last'.route = "/voice"
         /\ last'.body.kind \in {"malformed", "nonjson", "array", "falsy"})
        =>
        /\ \/ /\ last'.resp.status = 200
              /\ last'.resp.kind = "text"
              /\ last'.resp.body = ""
           \/ /\ last'.resp.status = 500
              /\ last'.resp.kind = "json"
              /\ "error" \in DOMAIN last'.resp.body
        /\ AUDIO_URL' = AUDIO_URL
        /\ USE_TTS' = USE_TTS
        /\ TTS_TEXT' = TTS_TEXT
        /\ sa' = sa
        /\ Quiescent' ]_vars

\* a malformed body ended in status 500 with an error body
C8_Witness ==
    /\ IsVoice /\ last.body.kind = "malformed"
    /\ last.resp.status = 500
    /\ "error" \in DOMAIN last.resp.body
    /\ Quiescent

-----------------------------------------------------------------------------
(* Properties of set_audio_url when requests overlap, under SpecThreaded *)

\* C9: a successful set_audio_url request that supplied a URL u as audio_url
\* gets status 200 with audio_url = u, in every interleaving with other
\* set_audio_url requests
C9_ResponseEchoesSuppliedUrl ==
    (last.route = "/set_audio_url" /\ last.resp.status = 200 /\ BodyUsable) =>
        last.resp.body.audio_url = last.body.json["audio_url"]

\* C10: a set_audio_url request whose body has no audio_url leaves AUDIO_URL
\* as it is: its assignment never reverts the update of a concurrent request
C10_NoFieldLeavesDefault ==
    [][ \A t \in Threads :
          (/\ sa[t].pc = "store"
           /\ sa'[t].pc = "return"
           /\ "audio_url" \notin DOMAIN sa[t].data.items)
          => AUDIO_URL' = AUDIO_URL ]_vars

====
